---- MODULE Spec2Model ----
(***************************************************************************)
(* A model of xtra's ActorManager (src/src/manager.rs): the mailbox        *)
(* created by ActorManager::start, the three phases of                     *)
(* ActorManager::manage (started + check_running, the awaiting main loop,  *)
(* the try_next drain loop) and the Drop implementation that calls         *)
(* Actor::stopped.                                                         *)
(*                                                                         *)
(* Context (check_running, handle_message) and the Address types are not   *)
(* part of manager.rs; they are modelled from the specification's          *)
(* sections 3, 4.2 and 4.3.                                                *)
(***************************************************************************)
EXTENDS Naturals, Integers, Sequences, FiniteSets, TLC

\* Bound on the number of entries ever sent into the mailbox.
MaxEntries == 3
\* Bound on the number of external strong addresses alive at once.
MaxStrong == 2

VARIABLES
    pc,          \* position of the manager: see Positions
    running,     \* Context.running
    mailbox,     \* the unbounded mpsc channel created in start, oldest first
    cur,         \* the entry handle_message is working on, or NoEntry
    strong,      \* number of external strong addresses (Address)
    policy,      \* what the actor's stop policy answers to LastAddress
    arrived,     \* history: number of entries ever enqueued
    log,         \* history: every entry ever enqueued, in arrival order
    dispatched,  \* history: ids handed to handle_message, in order
    invoked,     \* history: ids whose envelope was invoked
    started,     \* history: number of calls of Actor::started
    stopped,     \* history: number of calls of Actor::stopped
    exitPath,    \* history: how manage ended
    startStopped,\* history: started cleared the running flag
    preRun,      \* history: entries enqueued before manage was first polled
    lastRes,     \* history: the last ContinueManageLoop handle_message returned
    drainMark,   \* history: value of arrived when the drain loop was entered, or -1
    atDrain,     \* history: ids queued when the drain loop was entered
    drainCount,  \* history: entries taken by the drain loop
    drainExit,   \* history: a dispatch of the drain loop returned ExitImmediately
    exitLeft,    \* history: ids queued when that dispatch returned
    scen,        \* history: id of a LastAddress sent to a parked manager, or 0
    closed,      \* every sender of the channel has been dropped
    inflight,    \* ids whose handle_message future exists and has not completed
    drainVia,    \* history: what ended the main loop: "none", "verdict", "closed"
    destroyed    \* history: entries destroyed with the channel, never dispatched

vars == <<pc, running, mailbox, cur, strong, policy, arrived, log, dispatched,
          invoked, started, stopped, exitPath, startStopped, preRun, lastRes,
          drainMark, atDrain, drainCount, drainExit, exitLeft, scen, closed,
          inflight, drainVia, destroyed>>

hist == <<exitPath, startStopped, preRun, lastRes, drainMark, atDrain,
          drainCount, drainExit, exitLeft, scen>>

\* enum ManagerMessage
ManagerMessage == {"LastAddress", "Message", "LateNotification"}

\* enum ContinueManageLoop
ContinueManageLoop == {"Yes", "ExitImmediately", "ProcessNotifications"}

\* What an envelope's handler does: nothing to the loop, request a stop
\* (Context::stop), or make handle_message answer ExitImmediately.
Effects == {"none", "stop", "exit"}

Positions == {"created", "on_start", "main", "handle_main", "drain",
              "handle_drain", "on_stop", "gone"}

NoEntry == [id |-> 0, kind |-> "None", eff |-> "none"]

Ids(q) == {q[i].id : i \in 1..Len(q)}

\* The receiver lives in the Context, a field of the manager: it exists
\* until the manager's fields are dropped.
ReceiverAlive == pc # "gone"

\* UnboundedSender::unbounded_send on a clone of the sender made in start.
Enqueue(kind, eff) ==
    LET e == [id |-> arrived + 1, kind |-> kind, eff |-> eff] IN
    /\ mailbox' = Append(mailbox, e)
    /\ log' = Append(log, e)
    /\ arrived' = arrived + 1
    /\ preRun' = IF pc = "created" THEN preRun + 1 ELSE preRun

\* Variant of Init: start already calls Actor::started.
Init_StartsEagerly ==
    /\ pc = "created"
    /\ running = TRUE
    /\ mailbox = <<>>
    /\ cur = NoEntry
    /\ strong = 1
    /\ policy \in {"stop", "keep"}
    /\ arrived = 0
    /\ log = <<>>
    /\ dispatched = <<>>
    /\ invoked = <<>>
    /\ started = 1
    /\ stopped = 0
    /\ exitPath = "none"
    /\ startStopped = FALSE
    /\ preRun = 0
    /\ lastRes = "none"
    /\ drainMark = -1
    /\ atDrain = {}
    /\ drainCount = 0
    /\ drainExit = FALSE
    /\ exitLeft = {}
    /\ scen = 0
    /\ closed = FALSE
    /\ inflight = {}
    /\ drainVia = "none"
    /\ destroyed = <<>>

\* ActorManager::start: the state the pair (Address, ActorManager) is in
\* when start returns.
Init ==
    /\ pc = "created"
    /\ running = TRUE
    /\ mailbox = <<>>
    /\ cur = NoEntry
    /\ strong = 1
    /\ policy \in {"stop", "keep"}
    /\ arrived = 0
    /\ log = <<>>
    /\ dispatched = <<>>
    /\ invoked = <<>>
    /\ started = 0
    /\ stopped = 0
    /\ exitPath = "none"
    /\ startStopped = FALSE
    /\ preRun = 0
    /\ lastRes = "none"
    /\ drainMark = -1
    /\ atDrain = {}
    /\ drainCount = 0
    /\ drainExit = FALSE
    /\ exitLeft = {}
    /\ scen = 0
    /\ closed = FALSE
    /\ inflight = {}
    /\ drainVia = "none"
    /\ destroyed = <<>>

----
\* Producers

\* An external strong address sends a message. Once the running flag is
\* cleared the address no longer accepts one: no new message sent through a
\* strong address arrives after the stop.
SendMessage(eff) ==
    /\ ReceiverAlive
    /\ strong >= 1
    /\ running
    /\ arrived < MaxEntries
    /\ Enqueue("Message", eff)
    /\ UNCHANGED <<pc, running, cur, strong, policy, dispatched, invoked,
                   started, stopped, exitPath, startStopped, lastRes,
                   drainMark, atDrain, drainCount, drainExit, exitLeft, scen>>
    /\ UNCHANGED <<closed, inflight, drainVia, destroyed>>

\* A weak address (the Context's own, or one handed out) queues a late
\* notification.
SendLateNotification(eff) ==
    /\ ReceiverAlive
    /\ ~closed
    /\ arrived < MaxEntries
    /\ Enqueue("LateNotification", eff)
    /\ UNCHANGED <<pc, running, cur, strong, policy, dispatched, invoked,
                   started, stopped, exitPath, startStopped, lastRes,
                   drainMark, atDrain, drainCount, drainExit, exitLeft, scen>>
    /\ UNCHANGED <<closed, inflight, drainVia, destroyed>>

\* Address::clone
CloneAddress ==
    /\ strong >= 1
    /\ strong < MaxStrong
    /\ strong' = strong + 1
    /\ UNCHANGED <<pc, running, mailbox, cur, policy, arrived, log,
                   dispatched, invoked, started, stopped, hist>>
    /\ UNCHANGED <<closed, inflight, drainVia, destroyed>>

\* Address::drop: the last external strong address sends LastAddress.
DropAddress ==
    /\ strong >= 1
    /\ strong' = strong - 1
    /\ IF strong = 1 /\ ReceiverAlive
       THEN /\ arrived < MaxEntries
            /\ Enqueue("LastAddress", "none")
            /\ scen' = IF /\ pc = "main"
                          /\ running
                          /\ mailbox = <<>>
                          /\ policy = "stop"
                       THEN arrived + 1
                       ELSE scen
       ELSE UNCHANGED <<mailbox, log, arrived, preRun, scen>>
    /\ UNCHANGED <<pc, running, cur, policy, dispatched, invoked, started,
                   stopped, exitPath, startStopped, lastRes, drainMark,
                   atDrain, drainCount, drainExit, exitLeft>>
    /\ UNCHANGED <<closed, inflight, drainVia, destroyed>>

\* The last sender of the channel is dropped: no external strong address is
\* left and every weak address, the Context's own included, is gone.
Disconnect ==
    /\ ReceiverAlive
    /\ strong = 0
    /\ ~closed
    /\ closed' = TRUE
    /\ UNCHANGED <<pc, running, mailbox, cur, strong, policy, arrived, log,
                   dispatched, invoked, started, stopped, hist, inflight,
                   drainVia, destroyed>>

----
\* Context

\* Context::check_running
check_running(run) == run

\* Whether handle_message invokes the entry's envelope.
InvokesEnvelope(msg) == msg.kind \in {"Message", "LateNotification"}

\* Context::handle_message: the verdict and the running flag it leaves.
\* clr: whether a handler that makes the loop exit also cleared the flag.
handle_message(msg, run, pol, clr) ==
    IF msg.kind = "LastAddress"
    THEN IF ~run
         THEN [res |-> "Yes", running |-> run]
         ELSE IF pol = "stop"
              THEN [res |-> "ProcessNotifications", running |-> FALSE]
              ELSE [res |-> "Yes", running |-> run]
    ELSE CASE msg.eff = "stop" ->
                [res |-> "ProcessNotifications", running |-> FALSE]
           [] msg.eff = "exit" ->
                [res |-> "ExitImmediately", running |-> run /\ ~clr]
           [] OTHER ->
                [res |-> "Yes", running |-> run]

\* The entries still pending: the one being handled, then the queue.
Pending ==
    (IF inflight # {} THEN <<cur>> ELSE <<>>) \o mailbox

Renumbered(q, from) == [i \in 1..Len(q) |-> [q[i] EXCEPT !.id = from + i]]

\* A weak address that keeps sending late notifications during the drain
\* loop, without end. To keep the histories finite the entries already
\* completed are forgotten here: the histories are cut down to the pending
\* entries, renumbered from 1, and the new entry is queued behind them.
SendLateNotificationAgain(eff) ==
    LET n == Len(Pending)
        k == IF inflight # {} THEN 1 ELSE 0
        e == [id |-> n + 1, kind |-> "LateNotification", eff |-> eff]
    IN
    /\ pc \in {"drain", "handle_drain"}
    /\ ~closed
    /\ arrived = MaxEntries
    /\ n < MaxEntries
    /\ mailbox' = Append(Renumbered(mailbox, k), e)
    /\ log' = Append(Renumbered(Pending, 0), e)
    /\ arrived' = n + 1
    /\ cur' = IF k = 1 THEN [cur EXCEPT !.id = 1] ELSE cur
    /\ inflight' = IF k = 1 THEN {1} ELSE {}
    /\ dispatched' = IF k = 1 THEN <<1>> ELSE <<>>
    /\ invoked' = IF k = 1 /\ InvokesEnvelope(cur) THEN <<1>> ELSE <<>>
    /\ drainCount' = k
    /\ drainMark' = 0
    /\ atDrain' = {}
    /\ scen' = 0
    /\ UNCHANGED <<pc, running, strong, policy, started, stopped, exitPath,
                   startStopped, preRun, lastRes, drainExit, exitLeft, closed,
                   drainVia, destroyed>>

----
\* The manager

\* impl Drop for ActorManager: Actor::stopped is called.
Drop(path) ==
    /\ stopped' = stopped + 1
    /\ pc' = "on_stop"
    /\ exitPath' = path

\* stopped has returned; the manager's fields are dropped. Dropping the
\* receiver closes the channel and empties it: the entries still queued are
\* destroyed without being dispatched.
DropFields ==
    /\ pc = "on_stop"
    /\ pc' = "gone"
    /\ mailbox' = <<>>
    /\ destroyed' = mailbox
    /\ UNCHANGED <<running, cur, strong, policy, arrived, log,
                   dispatched, invoked, started, stopped, hist>>
    /\ UNCHANGED <<closed, inflight, drainVia>>

\* manage is first polled: Actor::started is called.
manage_started ==
    /\ pc = "created"
    /\ pc' = "on_start"
    /\ started' = started + 1
    /\ UNCHANGED <<running, mailbox, cur, strong, policy, arrived, log,
                   dispatched, invoked, stopped, hist>>
    /\ UNCHANGED <<closed, inflight, drainVia, destroyed>>

\* Variant of manage_check_running: the check after started is missing.
manage_check_running_NoCheck(stop) ==
    /\ pc = "on_start"
    /\ running' = (running /\ ~stop)
    /\ startStopped' = stop
    /\ pc' = "main"
    /\ UNCHANGED <<stopped, exitPath>>
    /\ UNCHANGED <<mailbox, cur, strong, policy, arrived, log, dispatched,
                   invoked, started, preRun, lastRes, drainMark, atDrain,
                   drainCount, drainExit, exitLeft, scen>>
    /\ UNCHANGED <<closed, inflight, drainVia, destroyed>>

\* Variant of manage_check_running: the check is inverted.
manage_check_running_Inverted(stop) ==
    /\ pc = "on_start"
    /\ running' = (running /\ ~stop)
    /\ startStopped' = stop
    /\ IF check_running(running')
       THEN Drop("on_start")
       ELSE /\ pc' = "main"
            /\ UNCHANGED <<stopped, exitPath>>
    /\ UNCHANGED <<mailbox, cur, strong, policy, arrived, log, dispatched,
                   invoked, started, preRun, lastRes, drainMark, atDrain,
                   drainCount, drainExit, exitLeft, scen>>
    /\ UNCHANGED <<closed, inflight, drainVia, destroyed>>

\* started returns, having called Context::stop or not, and manage checks
\* check_running.
manage_check_running(stop) ==
    /\ pc = "on_start"
    /\ running' = (running /\ ~stop)
    /\ startStopped' = stop
    /\ IF ~check_running(running')
       THEN Drop("on_start")
       ELSE /\ pc' = "main"
            /\ UNCHANGED <<stopped, exitPath>>
    /\ UNCHANGED <<mailbox, cur, strong, policy, arrived, log, dispatched,
                   invoked, started, preRun, lastRes, drainMark, atDrain,
                   drainCount, drainExit, exitLeft, scen>>
    /\ UNCHANGED <<closed, inflight, drainVia, destroyed>>

\* Variant of manage_next: the newest entry is taken instead of the oldest.
manage_next_Newest ==
    /\ pc = "main"
    /\ mailbox # <<>>
    /\ cur' = mailbox[Len(mailbox)]
    /\ inflight' = inflight \cup {mailbox[Len(mailbox)].id}
    /\ mailbox' = SubSeq(mailbox, 1, Len(mailbox) - 1)
    /\ dispatched' = Append(dispatched, mailbox[Len(mailbox)].id)
    /\ invoked' = IF InvokesEnvelope(mailbox[Len(mailbox)])
                  THEN Append(invoked, mailbox[Len(mailbox)].id)
                  ELSE invoked
    /\ pc' = "handle_main"
    /\ UNCHANGED <<running, strong, policy, arrived, log, started, stopped,
                   hist>>
    /\ UNCHANGED <<closed, drainVia, destroyed>>

\* Variant of manage_next: the next entry is taken without awaiting the
\* handle_message future of the one before.
manage_next_Reentrant ==
    /\ pc \in {"main", "handle_main"}
    /\ mailbox # <<>>
    /\ cur' = Head(mailbox)
    /\ mailbox' = Tail(mailbox)
    /\ inflight' = inflight \cup {Head(mailbox).id}
    /\ dispatched' = Append(dispatched, Head(mailbox).id)
    /\ invoked' = IF InvokesEnvelope(Head(mailbox))
                  THEN Append(invoked, Head(mailbox).id)
                  ELSE invoked
    /\ pc' = "handle_main"
    /\ UNCHANGED <<running, strong, policy, arrived, log, started, stopped,
                   hist>>
    /\ UNCHANGED <<closed, drainVia, destroyed>>

\* receiver.next().await yields an entry and handle_message is called on it.
manage_next ==
    /\ pc = "main"
    /\ mailbox # <<>>
    /\ cur' = Head(mailbox)
    /\ mailbox' = Tail(mailbox)
    /\ inflight' = inflight \cup {Head(mailbox).id}
    /\ dispatched' = Append(dispatched, Head(mailbox).id)
    /\ invoked' = IF InvokesEnvelope(Head(mailbox))
                  THEN Append(invoked, Head(mailbox).id)
                  ELSE invoked
    /\ pc' = "handle_main"
    /\ UNCHANGED <<running, strong, policy, arrived, log, started, stopped,
                   hist>>
    /\ UNCHANGED <<closed, drainVia, destroyed>>

\* Variant of manage_handled: the Yes arm breaks out of the main loop too.
manage_handled_BreaksOnYes(clr) ==
    LET h == handle_message(cur, running, policy, clr) IN
    /\ pc = "handle_main"
    /\ running' = h.running
    /\ lastRes' = h.res
    /\ cur' = NoEntry
    /\ inflight' = inflight \ {cur.id}
    /\ IF h.res \in {"Yes", "ProcessNotifications"}
       THEN /\ pc' = "drain"
            /\ drainMark' = arrived
            /\ atDrain' = Ids(mailbox)
            /\ drainVia' = "verdict"
            /\ UNCHANGED <<stopped, exitPath>>
       ELSE /\ Drop("exit_main")
            /\ UNCHANGED <<drainMark, atDrain, drainVia>>
    /\ UNCHANGED <<mailbox, strong, policy, arrived, log, dispatched, invoked,
                   started, startStopped, preRun, drainCount, drainExit,
                   exitLeft, scen>>
    /\ UNCHANGED <<closed, destroyed>>

\* Variant of manage_disconnected: None does not end the main loop, which
\* polls the closed channel again.
manage_disconnected_KeepsWaiting ==
    /\ pc = "main"
    /\ mailbox = <<>>
    /\ closed
    /\ UNCHANGED vars

\* receiver.next().await yields None (channel closed and empty): the while
\* let loop ends and manage goes on to the drain loop.
manage_disconnected ==
    /\ pc = "main"
    /\ mailbox = <<>>
    /\ closed
    /\ pc' = "drain"
    /\ drainVia' = "closed"
    /\ drainMark' = arrived
    /\ atDrain' = {}
    /\ UNCHANGED <<running, mailbox, cur, strong, policy, arrived, log,
                   dispatched, invoked, started, stopped, exitPath,
                   startStopped, preRun, lastRes, drainCount, drainExit,
                   exitLeft, scen, closed, inflight, destroyed>>

\* Variant of manage_handled: Actor::stopped is called where the main loop
\* is left for the drain loop, not when the manager is dropped.
manage_handled_StopsBeforeDrain(clr) ==
    LET h == handle_message(cur, running, policy, clr) IN
    /\ pc = "handle_main"
    /\ running' = h.running
    /\ lastRes' = h.res
    /\ cur' = NoEntry
    /\ inflight' = inflight \ {cur.id}
    /\ CASE h.res = "Yes" ->
              /\ pc' = "main"
              /\ UNCHANGED <<stopped, exitPath, drainMark, atDrain, drainVia>>
         [] h.res = "ProcessNotifications" ->
              /\ pc' = "drain"
              /\ drainMark' = arrived
              /\ atDrain' = Ids(mailbox)
              /\ drainVia' = "verdict"
              /\ stopped' = stopped + 1
              /\ UNCHANGED <<exitPath>>
         [] OTHER ->
              /\ Drop("exit_main")
              /\ UNCHANGED <<drainMark, atDrain, drainVia>>
    /\ UNCHANGED <<mailbox, strong, policy, arrived, log, dispatched, invoked,
                   started, startStopped, preRun, drainCount, drainExit,
                   exitLeft, scen>>
    /\ UNCHANGED <<closed, destroyed>>

\* Variant of manage_handled: ExitImmediately breaks out of the main loop
\* like ProcessNotifications, so the drain loop still runs.
manage_handled_ExitDrains(clr) ==
    LET h == handle_message(cur, running, policy, clr) IN
    /\ pc = "handle_main"
    /\ running' = h.running
    /\ lastRes' = h.res
    /\ cur' = NoEntry
    /\ inflight' = inflight \ {cur.id}
    /\ CASE h.res = "Yes" ->
              /\ pc' = "main"
              /\ UNCHANGED <<stopped, exitPath, drainMark, atDrain, drainVia>>
         [] h.res = "ProcessNotifications" ->
              /\ pc' = "drain"
              /\ drainMark' = arrived
              /\ atDrain' = Ids(mailbox)
              /\ drainVia' = "verdict"
              /\ UNCHANGED <<stopped, exitPath>>
         [] OTHER ->
              /\ pc' = "drain"
              /\ drainMark' = arrived
              /\ atDrain' = Ids(mailbox)
              /\ drainVia' = "verdict"
              /\ UNCHANGED <<stopped, exitPath>>
    /\ UNCHANGED <<mailbox, strong, policy, arrived, log, dispatched, invoked,
                   started, startStopped, preRun, drainCount, drainExit,
                   exitLeft, scen>>
    /\ UNCHANGED <<closed, destroyed>>

\* handle_message(..).await completes in the main loop; the match on its
\* result.
manage_handled(clr) ==
    LET h == handle_message(cur, running, policy, clr) IN
    /\ pc = "handle_main"
    /\ running' = h.running
    /\ lastRes' = h.res
    /\ cur' = NoEntry
    /\ inflight' = inflight \ {cur.id}
    /\ CASE h.res = "Yes" ->
              /\ pc' = "main"
              /\ UNCHANGED <<stopped, exitPath, drainMark, atDrain, drainVia>>
         [] h.res = "ProcessNotifications" ->
              /\ pc' = "drain"
              /\ drainMark' = arrived
              /\ atDrain' = Ids(mailbox)
              /\ drainVia' = "verdict"
              /\ UNCHANGED <<stopped, exitPath>>
         [] OTHER ->
              /\ Drop("exit_main")
              /\ UNCHANGED <<drainMark, atDrain, drainVia>>
    /\ UNCHANGED <<mailbox, strong, policy, arrived, log, dispatched, invoked,
                   started, startStopped, preRun, drainCount, drainExit,
                   exitLeft, scen>>
    /\ UNCHANGED <<closed, destroyed>>

\* Variant of drain_try_next: the drain loop awaits the next entry, so an
\* empty mailbox suspends it instead of ending manage.
drain_try_next_Awaits ==
    /\ pc = "drain"
    /\ mailbox # <<>>
    /\ cur' = Head(mailbox)
    /\ mailbox' = Tail(mailbox)
    /\ inflight' = inflight \cup {Head(mailbox).id}
    /\ dispatched' = Append(dispatched, Head(mailbox).id)
    /\ invoked' = IF InvokesEnvelope(Head(mailbox))
                  THEN Append(invoked, Head(mailbox).id)
                  ELSE invoked
    /\ drainCount' = drainCount + 1
    /\ pc' = "handle_drain"
    /\ UNCHANGED <<stopped, exitPath>>
    /\ UNCHANGED <<running, strong, policy, arrived, log, started,
                   startStopped, preRun, lastRes, drainMark, atDrain,
                   drainExit, exitLeft, scen>>
    /\ UNCHANGED <<closed, drainVia, destroyed>>

\* Variant of drain_try_next: an empty but open mailbox sends the manager
\* back to the awaiting loop.
drain_try_next_ReturnsToWait ==
    /\ pc = "drain"
    /\ IF mailbox = <<>>
       THEN /\ pc' = "main"
            /\ UNCHANGED <<stopped, exitPath>>
            /\ UNCHANGED <<mailbox, cur, dispatched, invoked, drainCount,
                           inflight>>
       ELSE /\ cur' = Head(mailbox)
            /\ mailbox' = Tail(mailbox)
            /\ inflight' = inflight \cup {Head(mailbox).id}
            /\ dispatched' = Append(dispatched, Head(mailbox).id)
            /\ invoked' = IF InvokesEnvelope(Head(mailbox))
                          THEN Append(invoked, Head(mailbox).id)
                          ELSE invoked
            /\ drainCount' = drainCount + 1
            /\ pc' = "handle_drain"
            /\ UNCHANGED <<stopped, exitPath>>
    /\ UNCHANGED <<running, strong, policy, arrived, log, started,
                   startStopped, preRun, lastRes, drainMark, atDrain,
                   drainExit, exitLeft, scen>>
    /\ UNCHANGED <<closed, drainVia, destroyed>>

\* receiver.try_next() in the drain loop: an entry, or the end of manage.
drain_try_next ==
    /\ pc = "drain"
    /\ IF mailbox = <<>>
       THEN /\ Drop("drain")
            /\ UNCHANGED <<mailbox, cur, dispatched, invoked, drainCount,
                           inflight>>
       ELSE /\ cur' = Head(mailbox)
            /\ mailbox' = Tail(mailbox)
            /\ inflight' = inflight \cup {Head(mailbox).id}
            /\ dispatched' = Append(dispatched, Head(mailbox).id)
            /\ invoked' = IF InvokesEnvelope(Head(mailbox))
                          THEN Append(invoked, Head(mailbox).id)
                          ELSE invoked
            /\ drainCount' = drainCount + 1
            /\ pc' = "handle_drain"
            /\ UNCHANGED <<stopped, exitPath>>
    /\ UNCHANGED <<running, strong, policy, arrived, log, started,
                   startStopped, preRun, lastRes, drainMark, atDrain,
                   drainExit, exitLeft, scen>>
    /\ UNCHANGED <<closed, drainVia, destroyed>>

\* Variant of drain_handled: any result other than Yes ends the drain loop.
drain_handled_StopsOnAnyVerdict(clr) ==
    LET h == handle_message(cur, running, policy, clr) IN
    /\ pc = "handle_drain"
    /\ running' = h.running
    /\ lastRes' = h.res
    /\ cur' = NoEntry
    /\ inflight' = inflight \ {cur.id}
    /\ IF h.res # "Yes"
       THEN /\ Drop(IF h.res = "ExitImmediately" THEN "drain_exit" ELSE "drain")
            /\ drainExit' = (h.res = "ExitImmediately")
            /\ exitLeft' = IF h.res = "ExitImmediately"
                           THEN Ids(mailbox) ELSE exitLeft
       ELSE /\ pc' = "drain"
            /\ UNCHANGED <<stopped, exitPath, drainExit, exitLeft>>
    /\ UNCHANGED <<mailbox, strong, policy, arrived, log, dispatched, invoked,
                   started, startStopped, preRun, drainMark, atDrain,
                   drainCount, scen>>
    /\ UNCHANGED <<closed, drainVia, destroyed>>

\* Variant of drain_handled: ExitImmediately does not end the drain loop.
drain_handled_IgnoresExit(clr) ==
    LET h == handle_message(cur, running, policy, clr) IN
    /\ pc = "handle_drain"
    /\ running' = h.running
    /\ lastRes' = h.res
    /\ cur' = NoEntry
    /\ inflight' = inflight \ {cur.id}
    /\ pc' = "drain"
    /\ drainExit' = (drainExit \/ h.res = "ExitImmediately")
    /\ exitLeft' = IF h.res = "ExitImmediately" THEN Ids(mailbox) ELSE exitLeft
    /\ UNCHANGED <<stopped, exitPath>>
    /\ UNCHANGED <<mailbox, strong, policy, arrived, log, dispatched, invoked,
                   started, startStopped, preRun, drainMark, atDrain,
                   drainCount, scen>>
    /\ UNCHANGED <<closed, drainVia, destroyed>>

\* handle_message(..).await completes in the drain loop.
drain_handled(clr) ==
    LET h == handle_message(cur, running, policy, clr) IN
    /\ pc = "handle_drain"
    /\ running' = h.running
    /\ lastRes' = h.res
    /\ cur' = NoEntry
    /\ inflight' = inflight \ {cur.id}
    /\ IF h.res = "ExitImmediately"
       THEN /\ Drop("drain_exit")
            /\ drainExit' = TRUE
            /\ exitLeft' = Ids(mailbox)
       ELSE /\ pc' = "drain"
            /\ UNCHANGED <<stopped, exitPath, drainExit, exitLeft>>
    /\ UNCHANGED <<mailbox, strong, policy, arrived, log, dispatched, invoked,
                   started, startStopped, preRun, drainMark, atDrain,
                   drainCount, scen>>
    /\ UNCHANGED <<closed, drainVia, destroyed>>

\* Variant of Cancel: stopped is called only where manage returns, so a
\* cancelled manager goes away without it.
Cancel_SkipsStopped ==
    /\ pc \in {"main", "handle_main", "handle_drain"}
    /\ inflight' = {}
    /\ cur' = NoEntry
    /\ pc' = "on_stop"
    /\ exitPath' = "cancel"
    /\ UNCHANGED <<running, mailbox, strong, policy, arrived, log,
                   dispatched, invoked, started, stopped, startStopped, preRun,
                   lastRes, drainMark, atDrain, drainCount, drainExit,
                   exitLeft, scen>>
    /\ UNCHANGED <<closed, drainVia, destroyed>>

\* The future returned by manage is dropped while suspended at an .await:
\* the handle_message future, if there is one, is dropped unfinished and the
\* entry it was handling is destroyed with it, before stopped is called.
Cancel ==
    /\ pc \in {"main", "handle_main", "handle_drain"}
    /\ inflight' = {}
    /\ cur' = NoEntry
    /\ Drop("cancel")
    /\ UNCHANGED <<running, mailbox, strong, policy, arrived, log,
                   dispatched, invoked, started, startStopped, preRun,
                   lastRes, drainMark, atDrain, drainCount, drainExit,
                   exitLeft, scen>>
    /\ UNCHANGED <<closed, drainVia, destroyed>>

\* Variant of Discard: stopped is called only for an actor that was started.
Discard_SkipsStopped ==
    /\ pc = "created"
    /\ pc' = "on_stop"
    /\ exitPath' = "discard"
    /\ stopped' = stopped
    /\ UNCHANGED <<running, mailbox, cur, strong, policy, arrived, log,
                   dispatched, invoked, started, startStopped, preRun,
                   lastRes, drainMark, atDrain, drainCount, drainExit,
                   exitLeft, scen>>
    /\ UNCHANGED <<closed, inflight, drainVia, destroyed>>

\* The manager returned by start is dropped without manage being polled.
Discard ==
    /\ pc = "created"
    /\ Drop("discard")
    /\ UNCHANGED <<running, mailbox, cur, strong, policy, arrived, log,
                   dispatched, invoked, started, startStopped, preRun,
                   lastRes, drainMark, atDrain, drainCount, drainExit,
                   exitLeft, scen>>
    /\ UNCHANGED <<closed, inflight, drainVia, destroyed>>

----
ManagerStep ==
    \/ manage_started
    \/ \E stop \in BOOLEAN : manage_check_running(stop)
    \/ manage_next
    \/ manage_disconnected
    \/ \E clr \in BOOLEAN : manage_handled(clr)
    \/ drain_try_next
    \/ \E clr \in BOOLEAN : drain_handled(clr)
    \/ DropFields

Next ==
    \/ \E eff \in Effects : SendMessage(eff)
    \/ \E eff \in Effects : SendLateNotification(eff)
    \/ CloneAddress
    \/ DropAddress
    \/ Disconnect
    \/ manage_started
    \/ \E stop \in BOOLEAN : manage_check_running(stop)
    \/ manage_next
    \/ manage_disconnected
    \/ \E clr \in BOOLEAN : manage_handled(clr)
    \/ drain_try_next
    \/ \E clr \in BOOLEAN : drain_handled(clr)
    \/ DropFields
    \/ Cancel
    \/ Discard

Spec == Init /\ [][Next]_vars

\* The executor keeps polling the manager's task and handlers complete.
FairSpec == Spec /\ WF_vars(ManagerStep)

\* The same manager with a producer that never runs out of late
\* notifications. The strong address returned by start is not cloned here:
\* how many strong addresses there are only decides when LastAddress is sent.
NextUnbounded ==
    \/ \E eff \in Effects : SendMessage(eff)
    \/ \E eff \in Effects : SendLateNotification(eff)
    \/ \E eff \in Effects : SendLateNotificationAgain(eff)
    \/ DropAddress
    \/ Disconnect
    \/ ManagerStep
    \/ Cancel
    \/ Discard

UnboundedFairSpec ==
    Init /\ [][NextUnbounded]_vars /\ WF_vars(ManagerStep)

----
Gone == pc \in {"on_stop", "gone"}

Kind(i) == log[i].kind

\* The entries enqueued and never dispatched: those still in the channel,
\* and those destroyed with it when the manager's fields were dropped.
Undispatched == destroyed \o mailbox

\* C1: on every way the manager's life can end (early return after
\* started, ExitImmediately in the main loop, the end of the drain loop,
\* cancellation at an .await, discarded before manage is polled),
\* Actor::stopped has been called exactly once; while the manager is alive it
\* has not been called; it is never called twice.
C1_StoppedExactlyOnce ==
    /\ stopped <= 1
    /\ Gone <=> stopped = 1
    /\ Gone <=> exitPath # "none"

C1_Witness ==
    /\ pc = "gone"
    /\ exitPath = "cancel"
    /\ stopped = 1
    /\ dispatched # <<>>
    /\ lastRes = "none"

\* C2: if started cleared the running flag, manage ends straight after the
\* check: no entry is ever dispatched, whatever was enqueued before manage
\* was polled or while started ran.
C2_NoDispatchAfterStopInStarted ==
    startStopped =>
        /\ dispatched = <<>>
        /\ invoked = <<>>
        /\ cur = NoEntry
        /\ Gone
        /\ exitPath = "on_start"

C2_Witness ==
    /\ startStopped
    /\ pc = "gone"
    /\ preRun >= 1
    /\ mailbox = <<>>
    /\ Len(destroyed) >= 2

\* C3: the entries dispatched (by the main loop and the drain loop together)
\* are the first entries that arrived, in arrival order, each once: the k-th
\* dispatch is of the k-th arrival, whatever its kind. The entries not
\* dispatched, queued or destroyed with the channel, are the later arrivals.
C3_DispatchInArrivalOrder ==
    /\ Len(dispatched) <= arrived
    /\ \A i \in 1..Len(dispatched) : dispatched[i] = i
    /\ \A i \in 1..Len(Undispatched) :
           Undispatched[i].id = Len(dispatched) + i

C3_Witness ==
    /\ Len(dispatched) = 3
    /\ drainCount >= 1
    /\ Kind(1) = "LateNotification"
    /\ Kind(2) = "Message"
    /\ Kind(3) = "LateNotification"

\* C4 as stated: whenever the manager has terminated leaving an enqueued
\* entry undispatched, the running flag had been cleared.
C4_Original ==
    (Gone /\ Undispatched # <<>>) => ~running

\* C4 amended: when manage ends by the early return after started or by the
\* end of the drain loop, every entry left undispatched is discarded with the
\* running flag cleared.
C4_DroppedOnlyWhenStopped ==
    (/\ Gone
     /\ exitPath \in {"on_start", "drain", "drain_exit"}
     /\ Undispatched # <<>>)
        => ~running

C4_Witness ==
    /\ pc = "gone"
    /\ exitPath = "drain_exit"
    /\ destroyed # <<>>
    /\ ~running

Dispatched(i) == \E k \in 1..Len(dispatched) : dispatched[k] = i

Invoked(i) == \E k \in 1..Len(invoked) : invoked[k] = i

\* C5 as stated: once the drain loop has been entered, every LateNotification
\* that was queued at that moment has been dispatched when the manager
\* terminates.
C5_Original ==
    (Gone /\ drainMark >= 0) =>
        \A i \in atDrain : Kind(i) = "LateNotification" => Dispatched(i)

\* C5 amended: when the drain loop ends because try_next found the mailbox
\* empty (no drain dispatch returned ExitImmediately and the task was not
\* cancelled inside a drain handler), every LateNotification that was queued
\* when the drain loop was entered has been dispatched.
C5_LateNotificationsDrained ==
    (Gone /\ exitPath = "drain") =>
        /\ \A i \in atDrain : Dispatched(i)
        /\ \A i \in atDrain : Kind(i) = "LateNotification" => Invoked(i)
        /\ drainCount >= Cardinality(atDrain)

C5_Witness ==
    /\ pc = "gone"
    /\ exitPath = "drain"
    /\ \E i \in atDrain : Kind(i) = "LateNotification" /\ log[i].eff = "stop"
    /\ \E i \in atDrain : Kind(i) = "LateNotification" /\ log[i].eff = "none"

\* C7: once a dispatch of the drain loop has returned ExitImmediately the loop
\* is over: the manager has terminated, and the entries that were queued
\* behind that dispatch (late notifications included) are never dispatched:
\* they stay queued until the channel is destroyed, and are destroyed with it.
C7_DrainExitDiscardsRest ==
    drainExit =>
        /\ Gone
        /\ exitPath = "drain_exit"
        /\ cur = NoEntry
        /\ lastRes = "ExitImmediately"
        /\ \A i \in exitLeft : ~Dispatched(i) /\ ~Invoked(i)
        /\ exitLeft \subseteq Ids(Undispatched)
        /\ pc = "gone" => (mailbox = <<>> /\ exitLeft \subseteq Ids(destroyed))

C7_Witness ==
    /\ drainExit
    /\ pc = "gone"
    /\ \E i \in exitLeft : Kind(i) = "LateNotification"

\* Only ordinary messages were ever sent: no late notification, no
\* LastAddress, no handler that stops the actor or leaves the loop.
OrdinaryOnly ==
    \A i \in 1..arrived : Kind(i) = "Message" /\ log[i].eff = "none"

\* No stop is requested, a strong address stays held, the task is not
\* cancelled and the manager is not discarded.
Undisturbed ==
    /\ running
    /\ strong >= 1
    /\ exitPath \notin {"cancel", "discard"}
    /\ OrdinaryOnly

\* The manager waits in receiver.next().await with everything that was sent
\* dispatched in the order it was sent, and Actor::stopped not called.
Parked ==
    /\ pc = "main"
    /\ mailbox = <<>>
    /\ cur = NoEntry
    /\ Len(dispatched) = arrived
    /\ \A i \in 1..arrived : dispatched[i] = i
    /\ invoked = dispatched
    /\ stopped = 0

\* C8: with only ordinary messages sent (some before manage is polled), no
\* stop requested, a strong address held and no cancellation, the manager
\* dispatches every message in the order sent and from then on stays parked in
\* the main loop's wait: it never terminates and stopped is never called.
C8_DeliversThenParks == ([]Undisturbed) => <>[]Parked

C8_Witness ==
    /\ Parked
    /\ Undisturbed
    /\ preRun = 3
    /\ arrived = 3

\* Nothing is sent behind the LastAddress of the scenario and the task is not
\* cancelled.
ScenarioAlone ==
    /\ exitPath # "cancel"
    /\ scen # 0 => arrived = scen

\* The scenario of C9 has run to its end.
ScenarioDone ==
    /\ Gone
    /\ stopped = 1
    /\ exitPath = "drain"
    /\ ~running
    /\ lastRes = "ProcessNotifications"
    /\ dispatched # <<>>
    /\ dispatched[Len(dispatched)] = scen
    /\ Undispatched = <<>>
    /\ drainCount = 0

\* C9: when the last external strong address is dropped while the manager is
\* parked in the main loop with an empty mailbox, the flag set and the stop
\* policy "stop", and nothing else is sent afterwards: the LastAddress is the
\* next entry dispatched, its dispatch clears the flag and returns
\* ProcessNotifications, the drain loop finds the mailbox empty on its first
\* try_next, manage returns and stopped is called, once.
C9_LastAddressStops ==
    ([]ScenarioAlone) => [](scen # 0 => <>ScenarioDone)

C9_Witness ==
    /\ scen # 0
    /\ ScenarioDone
    /\ pc = "gone"

\* C11: Actor::started is called at most once, before any dispatch and before
\* Actor::stopped; entries are dispatched only after started and before
\* stopped; when manage was polled, stopped comes after started; once stopped
\* has been called nothing is dispatched and started is not called.
C11_LifecycleOrder ==
    [][ /\ started' <= 1
        /\ started' # started => (dispatched = <<>> /\ stopped = 0)
        /\ dispatched' # dispatched => (started = 1 /\ stopped = 0)
        /\ (stopped' # stopped /\ exitPath' # "discard") => started = 1
        /\ stopped >= 1 => /\ dispatched' = dispatched
                           /\ invoked' = invoked
                           /\ started' = started ]_vars

C11_Witness ==
    /\ pc = "gone"
    /\ started = 1
    /\ stopped = 1
    /\ exitPath = "drain"
    /\ Len(dispatched) >= 2
    /\ drainCount >= 1

InDrain == pc \in {"drain", "handle_drain"}

\* C12 as stated: once in the drain phase the manager, scheduled fairly,
\* eventually terminates, whatever the producers holding weak addresses do.
C12_Original == [](InDrain => <>Gone)

\* C12 amended: the drain loop never waits for an entry (try_next can always
\* be taken, mailbox empty or not), and under fair scheduling the manager
\* terminates once in the drain phase provided that from some point on no
\* more entries are enqueued.
C12_DrainTerminates ==
    /\ [](pc = "drain" => ENABLED drain_try_next)
    /\ (<>[][Len(mailbox') <= Len(mailbox)]_vars) => [](InDrain => <>Gone)

C12_Witness ==
    /\ pc = "gone"
    /\ exitPath = "drain"
    /\ ~closed
    /\ drainCount >= 2
    /\ \E i \in 1..Len(dispatched) :
           dispatched[i] > drainMark /\ Kind(dispatched[i]) = "LateNotification"

DisconnectedInWait == pc = "main" /\ closed /\ mailbox = <<>>

\* C13: when the channel is closed and empty while the manager waits in the
\* main loop, and the task is not cancelled, the manager leaves the main loop,
\* dispatches nothing further (the drain loop takes no entry), terminates and
\* Actor::stopped is called once.
C13_DisconnectStops ==
    ([](exitPath # "cancel")) =>
        [](DisconnectedInWait =>
             <>(/\ Gone
                /\ stopped = 1
                /\ exitPath = "drain"
                /\ drainVia = "closed"
                /\ drainCount = 0
                /\ Len(dispatched) = arrived
                /\ Undispatched = <<>>))

C13_Witness ==
    /\ pc = "gone"
    /\ drainVia = "closed"
    /\ exitPath = "drain"
    /\ stopped = 1
    /\ Len(dispatched) >= 2

Executing ==
    Cardinality(inflight)
        + (IF pc = "on_start" THEN 1 ELSE 0)
        + (IF pc = "on_stop" THEN 1 ELSE 0)

\* C14: at most one of Actor::started, a handle_message call and
\* Actor::stopped is in progress at any time, and at most one entry is being
\* dispatched, however many producers enqueue.
C14_OneAtATime ==
    /\ Executing <= 1
    /\ inflight # {} => (pc \in {"handle_main", "handle_drain"} /\ inflight = {cur.id})

C14_Witness ==
    /\ pc = "handle_drain"
    /\ Cardinality(inflight) = 1
    /\ strong = 2
    /\ Len(mailbox) >= 1

\* C15: from the return of start until manage is first polled, started has
\* not been called, nothing has been dispatched, the flag is set, and the
\* mailbox holds exactly the entries sent so far, in the order sent.
C15_StartDoesNothing ==
    pc = "created" =>
        /\ started = 0
        /\ stopped = 0
        /\ dispatched = <<>>
        /\ invoked = <<>>
        /\ inflight = {}
        /\ cur = NoEntry
        /\ running
        /\ mailbox = log

C15_Witness ==
    /\ pc = "created"
    /\ Len(mailbox) = 3
    /\ Kind(1) = "Message"
    /\ Kind(2) = "LateNotification"

\* The last verdict was ExitImmediately and came from the main loop.
MainExit == lastRes = "ExitImmediately" /\ drainCount = 0

\* C16: when a dispatch of the main loop returns ExitImmediately, manage
\* returns at once: the drain loop is never entered, stopped is called, and
\* nothing more is dispatched, queued late notifications included.
C16_ExitSkipsDrain ==
    [][ /\ MainExit' => /\ Gone'
                        /\ exitPath' = "exit_main"
                        /\ stopped' = 1
                        /\ drainMark' = -1
                        /\ inflight' = {}
        /\ MainExit => (dispatched' = dispatched /\ invoked' = invoked) ]_vars

C16_Witness ==
    /\ MainExit
    /\ pc = "gone"
    /\ \E i \in 1..Len(destroyed) : destroyed[i].kind = "LateNotification"

\* C17 as stated: the drain loop is entered only from a main-loop dispatch
\* that returned ProcessNotifications.
C17_Original ==
    [][(InDrain' /\ ~InDrain) =>
           (pc = "handle_main" /\ lastRes' = "ProcessNotifications")]_vars

\* C17 amended: the drain loop is entered only from a main-loop dispatch that
\* returned ProcessNotifications, or from the main loop's wait when the
\* channel is closed and empty; never from startup and never after
\* termination.
C17_DrainOnlyFromMainLoop ==
    [][(InDrain' /\ ~InDrain) =>
           \/ (pc = "handle_main" /\ lastRes' = "ProcessNotifications"
                 /\ drainVia' = "verdict")
           \/ (pc = "main" /\ closed /\ mailbox = <<>>
                 /\ drainVia' = "closed")]_vars

C17_Witness ==
    /\ pc = "handle_drain"
    /\ drainVia = "verdict"
    /\ lastRes = "ProcessNotifications"

\* C18: the drain loop ends manage at the first try_next that finds the
\* mailbox empty, although the channel is still open; an entry enqueued after
\* that is never dispatched.
C18_EmptyPollTerminates ==
    [][ /\ (pc = "drain" /\ mailbox = <<>> /\ pc' # pc) =>
               (pc' = "on_stop" /\ exitPath' = "drain" /\ stopped' = 1)
        /\ exitPath = "drain" => (dispatched' = dispatched /\ Gone') ]_vars

C18_Witness ==
    /\ pc = "gone"
    /\ exitPath = "drain"
    /\ ~closed
    /\ destroyed # <<>>

\* C19: a manager dropped without manage ever being polled has
\* Actor::stopped called exactly once, while started is never called and no
\* entry is dispatched.
C19_DiscardStillStops ==
    exitPath = "discard" =>
        /\ Gone
        /\ stopped = 1
        /\ started = 0
        /\ dispatched = <<>>
        /\ invoked = <<>>

C19_Witness ==
    /\ exitPath = "discard"
    /\ pc = "gone"
    /\ Len(destroyed) >= 2

\* C20: in the drain loop Yes and ProcessNotifications both lead to the next
\* try_next; the loop ends only when try_next finds nothing or a dispatch
\* returns ExitImmediately (cancellation apart: it drops the future).
C20_DrainContinuesOnYesAndProcess ==
    [][ /\ (pc = "handle_drain" /\ pc' # pc /\ exitPath' # "cancel") =>
               IF lastRes' = "ExitImmediately"
               THEN pc' = "on_stop" /\ exitPath' = "drain_exit"
               ELSE pc' = "drain" /\ lastRes' \in {"Yes", "ProcessNotifications"}
        /\ (pc = "drain" /\ pc' # pc) =>
               IF mailbox = <<>>
               THEN pc' = "on_stop" /\ exitPath' = "drain"
               ELSE pc' = "handle_drain" ]_vars

C20_Witness ==
    /\ pc = "handle_drain"
    /\ drainCount = 2
    /\ lastRes = "ProcessNotifications"
    /\ log[dispatched[Len(dispatched) - 1]].eff = "stop"

====
